---------------------------- MODULE Spec2Model ----------------------------
(* A model of barcode-windows/barcode_scanner.py: the HID decoder           *)
(* (hid_to_char), the report processing of USBBarcodeScanner                *)
(* (_process_data, read_loop) and the dispatcher of App (set_mode,          *)
(* handle_barcode, toggle_enabled, update_status), the latter also run      *)
(* line by line by the scan thread and the tray thread.                     *)
(*                                                                          *)
(* Characters are one-character strings, Python strings are sequences of    *)
(* characters, Python's None is the value None.                             *)
EXTENDS Integers, Sequences, FiniteSets, TLC

VARIABLES
    \* ---- decoder harness: one call hid_to_char(code, shift)
    code, shift, char,
    \* ---- USBBarcodeScanner
    device, endpoint, buffer, prev_keys,
    \* read_loop: position of the scan thread, the stop event
    pc, stop_event,
    \* what the last step of read_loop did (observation, not program state)
    step,
    \* time since the last decoded keystroke, in ms (environment clock)
    idle,
    \* number of leading characters of buffer that were already in the buffer
    \* when a keystroke arrived after an idle gap above IdleThreshold
    stale,
    \* the non-zero key codes of the last report of at least 3 bytes
    last_codes,
    \* ---- App
    enabled, connected, icon, settings,
    \* what the last call into App did (observation, not program state)
    call,
    \* FALSE once a settings write has failed
    saved,
    \* the calls of handle_barcode, on the scan thread, and of toggle_enabled,
    \* on the tray thread, when they run line by line: position and locals
    thread

decVars  == <<code, shift, char>>
scanVars == <<device, endpoint, buffer, prev_keys, pc, stop_event, step, idle, stale,
             last_codes>>
appVars  == <<enabled, connected, icon, settings, call, saved, thread>>
vars     == <<decVars, scanVars, appVars>>

None == "None"

\* the result of a call of hid_to_char that was not made yet
Pending == "pending"

-----------------------------------------------------------------------------
(* hid_to_char                                                              *)

Enter == "\n"

\* the character U+0060 (the lexer of TLA+ strings has no backtick)
Backtick == "U+0060"

LowerLetters ==
    <<"a","b","c","d","e","f","g","h","i","j","k","l","m",
      "n","o","p","q","r","s","t","u","v","w","x","y","z">>

UpperLetters ==
    <<"A","B","C","D","E","F","G","H","I","J","K","L","M",
      "N","O","P","Q","R","S","T","U","V","W","X","Y","Z">>

\* chr(n) for the code points hid_to_char builds: ord('a') = 97
Chr(n) == LowerLetters[n - 97 + 1]

\* str.upper() of a lowercase letter
Upper(c) == UpperLetters[CHOOSE i \in 1..26 : LowerLetters[i] = c]

\* str(n) for one decimal digit
Str(n) == <<"1","2","3","4","5","6","7","8","9">>[n]

HID_CHARS ==
    (40 :> Enter) @@ (44 :> " ") @@ (45 :> "-") @@ (46 :> "=") @@
    (47 :> "[") @@ (48 :> "]") @@ (49 :> "\\") @@ (51 :> ";") @@
    (52 :> "'") @@ (53 :> Backtick) @@ (54 :> ",") @@ (55 :> ".") @@ (56 :> "/")

HID_SHIFT_CHARS ==
    (30 :> "!") @@ (31 :> "@") @@ (32 :> "#") @@ (33 :> "$") @@ (34 :> "%") @@
    (35 :> "^") @@ (36 :> "&") @@ (37 :> "*") @@ (38 :> "(") @@ (39 :> ")") @@
    (45 :> "_") @@ (46 :> "+") @@ (47 :> "{") @@ (48 :> "}") @@ (49 :> "|") @@
    (51 :> ":") @@ (52 :> "\"") @@ (53 :> "~") @@ (54 :> "<") @@ (55 :> ">") @@
    (56 :> "?")

\* dict.get(key): the value, or None
Get(d, k) == IF k \in DOMAIN d THEN d[k] ELSE None

\* a variant that ignores shift on the digit row
hid_to_char_digits(c, sh) ==
    IF 4 <= c /\ c <= 29
    THEN IF sh THEN Upper(Chr(c - 4 + 97)) ELSE Chr(c - 4 + 97)
    ELSE IF 30 <= c /\ c <= 39
    THEN IF c <= 38 THEN Str(c - 29) ELSE "0"
    ELSE IF sh /\ c \in DOMAIN HID_SHIFT_CHARS
    THEN HID_SHIFT_CHARS[c]
    ELSE Get(HID_CHARS, c)

\* a variant without lines 138-139: shift is ignored on the symbol keys
hid_to_char_symbols(c, sh) ==
    IF 4 <= c /\ c <= 29
    THEN IF sh THEN Upper(Chr(c - 4 + 97)) ELSE Chr(c - 4 + 97)
    ELSE IF 30 <= c /\ c <= 39
    THEN IF sh THEN Get(HID_SHIFT_CHARS, c)
         ELSE IF c <= 38 THEN Str(c - 29) ELSE "0"
    ELSE Get(HID_CHARS, c)

hid_to_char(c, sh) ==
    IF 4 <= c /\ c <= 29
    THEN IF sh THEN Upper(Chr(c - 4 + 97)) ELSE Chr(c - 4 + 97)
    ELSE IF 30 <= c /\ c <= 39
    THEN IF sh THEN Get(HID_SHIFT_CHARS, c)
         ELSE IF c <= 38 THEN Str(c - 29) ELSE "0"
    ELSE IF sh /\ c \in DOMAIN HID_SHIFT_CHARS
    THEN HID_SHIFT_CHARS[c]
    ELSE Get(HID_CHARS, c)

-----------------------------------------------------------------------------
(* USBBarcodeScanner._process_data                                          *)

\* bounds of the model
MaxBuf == 2
IdleCap == 150

\* the assembler's idle threshold of the specification, in ms
IdleThreshold == 100
\* endpoint.read(..., timeout=100), in ms
ReadTimeout == 100
\* time.sleep(2), in ms
Backoff == 2000

Min(a, b) == IF a <= b THEN a ELSE b

RECURSIVE BitAnd(_, _)
BitAnd(a, b) ==
    IF a = 0 \/ b = 0 THEN 0
    ELSE (a % 2) * (b % 2) + 2 * BitAnd(a \div 2, b \div 2)

\* sorted(S) of a set of integers
RECURSIVE sorted(_)
sorted(S) ==
    IF S = {} THEN <<>>
    ELSE LET m == CHOOSE x \in S : \A y \in S : x <= y
         IN  <<m>> \o sorted(S \ {m})

\* data[i] of Python is data[i + 1] here
At(data, i) == data[i + 1]

\* shift = bool(data[0] & 0x22)
shift_of(data) == BitAnd(At(data, 0), 34) # 0

\* set(data[i] for i in range(2, min(8, len(data))) if data[i] != 0)
current_keys(data) ==
    {At(data, i) : i \in {j \in 2..(Min(8, Len(data)) - 1) : At(data, j) # 0}}

\* a variant that does not debounce: every pressed key is new
new_keys_all(data, prev) == current_keys(data)

\* new_keys = current_keys - self.prev_keys
new_keys(data, prev) == current_keys(data) \ prev

\* a variant that does not clear the buffer after the callback
RECURSIVE key_loop_keep(_, _, _, _)
key_loop_keep(keys, sh, st, cbRaises) ==
    IF keys = <<>> THEN st
    ELSE LET ch == hid_to_char(Head(keys), sh) IN
         IF ch = Enter
         THEN IF st.buffer # <<>>
              THEN IF cbRaises
                   THEN [st EXCEPT !.emitted = Append(@, st.buffer),
                                   !.raised = TRUE]
                   ELSE key_loop_keep(Tail(keys), sh,
                                      [st EXCEPT !.emitted = Append(@, st.buffer)],
                                      cbRaises)
              ELSE key_loop_keep(Tail(keys), sh, st, cbRaises)
         ELSE IF ch # None
              THEN key_loop_keep(Tail(keys), sh,
                                 [st EXCEPT !.buffer = Append(@, ch)], cbRaises)
              ELSE key_loop_keep(Tail(keys), sh, st, cbRaises)

\* a variant without the test of line 282: Enter forwards an empty buffer too
RECURSIVE key_loop_always(_, _, _, _)
key_loop_always(keys, sh, st, cbRaises) ==
    IF keys = <<>> THEN st
    ELSE LET ch == hid_to_char(Head(keys), sh) IN
         IF ch = Enter
         THEN IF cbRaises
              THEN [st EXCEPT !.emitted = Append(@, st.buffer), !.raised = TRUE]
              ELSE key_loop_always(Tail(keys), sh,
                                   [st EXCEPT !.emitted = Append(@, st.buffer),
                                              !.buffer = <<>>], cbRaises)
         ELSE IF ch # None
              THEN key_loop_always(Tail(keys), sh,
                                   [st EXCEPT !.buffer = Append(@, ch)], cbRaises)
              ELSE key_loop_always(Tail(keys), sh, st, cbRaises)

\* the for loop over sorted(new_keys): st is [buffer, emitted, raised], where
\* emitted are the arguments of the calls of barcode_callback; cbRaises says
\* whether barcode_callback raises, which leaves the loop before buffer = ""
RECURSIVE key_loop(_, _, _, _)
key_loop(keys, sh, st, cbRaises) ==
    IF keys = <<>> THEN st
    ELSE LET ch == hid_to_char(Head(keys), sh) IN
         IF ch = Enter
         THEN IF st.buffer # <<>>
              THEN IF cbRaises
                   THEN [st EXCEPT !.emitted = Append(@, st.buffer),
                                   !.raised = TRUE]
                   ELSE key_loop(Tail(keys), sh,
                                 [st EXCEPT !.emitted = Append(@, st.buffer),
                                            !.buffer = <<>>], cbRaises)
              ELSE key_loop(Tail(keys), sh, st, cbRaises)
         ELSE IF ch # None
              THEN key_loop(Tail(keys), sh,
                            [st EXCEPT !.buffer = Append(@, ch)], cbRaises)
              ELSE key_loop(Tail(keys), sh, st, cbRaises)

\* __process_data(data) on the state (buf, prev): the new buffer and prev_keys,
\* the keys the loop ran over, the calls of barcode_callback, and whether the
\* call left by an exception
_process_data(data, buf, prev, cbRaises) ==
    IF Len(data) < 3
    THEN [buffer |-> buf, prev_keys |-> prev, keys |-> <<>>,
          emitted |-> <<>>, raised |-> FALSE]
    ELSE LET keys == sorted(new_keys(data, prev))
             st   == key_loop(keys, shift_of(data),
                              [buffer |-> buf, emitted |-> <<>>, raised |-> FALSE],
                              cbRaises)
         IN  [buffer |-> st.buffer, prev_keys |-> current_keys(data),
              keys |-> keys, emitted |-> st.emitted, raised |-> st.raised]

-----------------------------------------------------------------------------
(* USBBarcodeScanner.connect, disconnect, read_loop                          *)

Dev == "device"
Ep  == "endpoint"

\* what connect() meets: no device, a USBError of usb.core.find, a USBError
\* of get_active_configuration, no IN endpoint, or success
ConnectOutcomes == {"absent", "find_error", "config_error", "no_endpoint", "ok"}

\* connect(): the new device and endpoint and the value returned
connect(outcome, dev, ep) ==
    CASE outcome = "absent"       -> [device |-> None, endpoint |-> ep,   ok |-> FALSE]
      [] outcome = "find_error"   -> [device |-> dev,  endpoint |-> ep,   ok |-> FALSE]
      [] outcome = "config_error" -> [device |-> Dev,  endpoint |-> ep,   ok |-> FALSE]
      [] outcome = "no_endpoint"  -> [device |-> Dev,  endpoint |-> None, ok |-> FALSE]
      [] outcome = "ok"           -> [device |-> Dev,  endpoint |-> Ep,   ok |-> TRUE]

\* a variant of disconnect without line 233: the handle is kept
disconnect_keep(dev, ep) == [device |-> dev, endpoint |-> None]

\* disconnect(): the new device and endpoint
disconnect(dev, ep) ==
    IF dev # None THEN [device |-> None, endpoint |-> None]
    ELSE [device |-> dev, endpoint |-> ep]

\* the packets the device sends: reports of 8 bytes with a modifier byte
\* (none, left shift) and the key codes a, Enter, Escape, space in the first
\* and the last slot; a report with right shift; packets of 9 bytes; a packet
\* of 2 bytes
Mods == {0, 2}
KeyBytes == {0, 4, 40, 41, 44}
Reports ==
    {<<m, 0, k1, 0, 0, 0, 0, k2>> : m \in Mods, k1 \in KeyBytes, k2 \in KeyBytes}
    \cup {<<32, 0, 4, 0, 0, 0, 0, 0>>}
    \cup {<<0, 0, k1, 0, 0, 0, 0, 0, 4>> : k1 \in {0, 40}}
    \cup {<<0, 0>>}

\* how long a read that returns data took, in ms
Delays == {50}

\* the observation of a step that is not a call of _process_data
Obs(op, status) ==
    [op |-> op, len |-> 0, cur |-> {}, shift |-> FALSE, keys |-> <<>>,
     emitted |-> <<>>, raised |-> FALSE, status |-> status,
     late |-> FALSE, stale_emitted |-> 0]

\* the key codes of a report: its non-zero bytes 2..7
ReportCodes(data) == {data[i] : i \in 3..Min(8, Len(data))} \ {0}

ScanInit ==
    /\ device = None
    /\ endpoint = None
    /\ buffer = <<>>
    /\ prev_keys = {}
    /\ pc = "top"
    /\ stop_event = FALSE
    /\ step = Obs("start", <<>>)
    /\ idle = IdleCap
    /\ stale = 0
    /\ last_codes = {}

\* read_loop, lines 239-244: the session is disconnected, connect() is tried
Connect(outcome) ==
    /\ pc = "top" /\ ~stop_event /\ device = None
    /\ LET r == connect(outcome, device, endpoint) IN
       /\ device' = r.device
       /\ endpoint' = r.endpoint
       /\ pc' = IF r.ok THEN "read" ELSE "sleep"
       /\ step' = Obs("connect", <<r.ok>>)
    /\ UNCHANGED <<buffer, prev_keys, stop_event, idle, stale, last_codes>>
    /\ UNCHANGED <<decVars, appVars>>

\* the read of line 247 is reached after a connect, or at once when a device
\* handle is held
AtRead == pc = "read" \/ (pc = "top" /\ ~stop_event /\ device # None)

\* a variant without lines 254 and 259: the loop backs off without a report
Recover_silent(op) ==
    /\ device' = disconnect(device, endpoint).device
    /\ endpoint' = disconnect(device, endpoint).endpoint
    /\ pc' = "sleep"
    /\ step' = Obs(op, <<>>)

\* lines 257-261, the handler of any exception: disconnect, report, back off
Recover(op) ==
    /\ device' = disconnect(device, endpoint).device
    /\ endpoint' = disconnect(device, endpoint).endpoint
    /\ pc' = "sleep"
    /\ step' = Obs(op, <<FALSE>>)

\* self.endpoint is None: self.endpoint.read raises AttributeError
ReadNoEndpoint ==
    /\ AtRead /\ endpoint = None
    /\ Recover("no_endpoint")
    /\ UNCHANGED <<buffer, prev_keys, stop_event, idle, stale, last_codes>>
    /\ UNCHANGED <<decVars, appVars>>

\* the read returns data after dt ms and _process_data runs on it; when
\* _process_data raises, the handler of lines 257-261 runs
ReadData(data, dt, cbRaises) ==
    /\ AtRead /\ endpoint # None
    /\ cbRaises => _process_data(data, buffer, prev_keys, FALSE).emitted # <<>>
    /\ \E r \in {_process_data(data, buffer, prev_keys, cbRaises)} :
       \E sh \in {Len(data) >= 3 /\ shift_of(data)} :
       \E fed \in {\E i \in DOMAIN r.keys : hid_to_char(r.keys[i], sh) # None} :
       \E gap \in {Min(idle + dt, IdleCap)} :
       \E old \in {IF fed /\ gap > IdleThreshold /\ buffer # <<>>
                   THEN Len(buffer) ELSE stale} :
       /\ Len(r.buffer) <= MaxBuf
       /\ buffer' = r.buffer
       /\ prev_keys' = r.prev_keys
       /\ idle' = IF fed THEN 0 ELSE gap
       /\ stale' = IF r.emitted # <<>> /\ ~r.raised THEN 0 ELSE old
       /\ last_codes' = IF Len(data) >= 3 THEN ReportCodes(data) ELSE last_codes
       /\ device' = IF r.raised THEN disconnect(device, endpoint).device ELSE device
       /\ endpoint' = IF r.raised THEN disconnect(device, endpoint).endpoint
                      ELSE endpoint
       /\ pc' = IF r.raised THEN "sleep" ELSE "top"
       /\ step' = [op |-> "data", len |-> Len(data),
                   cur |-> IF Len(data) >= 3 THEN ReportCodes(data) ELSE {},
                   shift |-> sh,
                   keys |-> r.keys, emitted |-> r.emitted, raised |-> r.raised,
                   status |-> IF r.raised THEN <<FALSE>> ELSE <<>>,
                   late |-> fed /\ gap > IdleThreshold,
                   stale_emitted |-> IF r.emitted # <<>> THEN old ELSE 0]
    /\ UNCHANGED stop_event
    /\ UNCHANGED <<decVars, appVars>>

\* a variant without the test of line 250: the timeout is handled as an error
ReadTimedOut_as_error ==
    /\ AtRead /\ endpoint # None
    /\ Recover("timeout")
    /\ idle' = Min(idle + ReadTimeout, IdleCap)
    /\ UNCHANGED <<buffer, prev_keys, stop_event, stale, last_codes>>
    /\ UNCHANGED <<decVars, appVars>>

\* the read ends with errno 10060 after the timeout: continue
ReadTimedOut ==
    /\ AtRead /\ endpoint # None
    /\ pc' = "top"
    /\ idle' = Min(idle + ReadTimeout, IdleCap)
    /\ step' = Obs("timeout", <<>>)
    /\ UNCHANGED <<device, endpoint, buffer, prev_keys, stop_event, stale, last_codes>>
    /\ UNCHANGED <<decVars, appVars>>

\* the read ends with another USBError: lines 252-255
ReadError ==
    /\ AtRead /\ endpoint # None
    /\ Recover("read_error")
    /\ UNCHANGED <<buffer, prev_keys, stop_event, idle, stale, last_codes>>
    /\ UNCHANGED <<decVars, appVars>>

\* time.sleep(2) returns
Wake ==
    /\ pc = "sleep"
    /\ pc' = "top"
    /\ idle' = Min(idle + Backoff, IdleCap)
    /\ step' = Obs("wake", <<>>)
    /\ UNCHANGED <<device, endpoint, buffer, prev_keys, stop_event, stale, last_codes>>
    /\ UNCHANGED <<decVars, appVars>>

\* a variant without line 263: the loop is left without disconnect()
Exit_holding ==
    /\ pc = "top" /\ stop_event
    /\ pc' = "done"
    /\ step' = Obs("exit", <<>>)
    /\ UNCHANGED <<device, endpoint, buffer, prev_keys, stop_event, idle, stale,
                   last_codes>>
    /\ UNCHANGED <<decVars, appVars>>

\* the loop condition sees the stop event: line 263
Exit ==
    /\ pc = "top" /\ stop_event
    /\ device' = disconnect(device, endpoint).device
    /\ endpoint' = disconnect(device, endpoint).endpoint
    /\ pc' = "done"
    /\ step' = Obs("exit", <<>>)
    /\ UNCHANGED <<buffer, prev_keys, stop_event, idle, stale, last_codes>>
    /\ UNCHANGED <<decVars, appVars>>

\* App.quit on the tray thread sets the stop event
Quit ==
    /\ ~stop_event
    /\ stop_event' = TRUE
    /\ UNCHANGED <<device, endpoint, buffer, prev_keys, pc, step, idle, stale,
                   last_codes>>
    /\ UNCHANGED <<decVars, appVars>>

-----------------------------------------------------------------------------
(* App: load_settings, save_settings, set_mode, handle_barcode,             *)
(* update_status, toggle_enabled, run                                       *)

\* the settings file: <<>> when it is missing or not JSON, <<e>> when it
\* holds {"enabled": e}
NoFile == <<>>

\* load_settings().get('enabled', False)
load_settings(file) == IF file = NoFile THEN FALSE ELSE file[1]

\* what a write of the settings file meets: success, an open() that fails
\* and leaves the file as it was, or a failure after open() truncated it
WriteOutcomes == {"ok", "open_failed", "truncated"}

\* save_settings({'enabled': e}): the new file; exceptions are swallowed
save_settings(e, file, w) ==
    CASE w = "ok"          -> <<e>>
      [] w = "open_failed" -> file
      [] w = "truncated"   -> NoFile

\* a variant of set_mode without the test of line 328
set_mode_always(e, w, st) ==
    [enabled |-> e,
     settings |-> save_settings(e, st.settings, w),
     saved |-> (w = "ok"),
     writes |-> <<e>>,
     notified |-> IF st.icon THEN 1 ELSE 0]

\* set_mode(e) on st = [enabled, settings, saved, icon]: the new mode and file,
\* the values handed to save_settings and the number of icon and menu updates
set_mode(e, w, st) ==
    IF st.enabled # e
    THEN [enabled |-> e,
          settings |-> save_settings(e, st.settings, w),
          saved |-> (w = "ok"),
          writes |-> <<e>>,
          notified |-> IF st.icon THEN 1 ELSE 0]
    ELSE [enabled |-> st.enabled, settings |-> st.settings, saved |-> st.saved,
          writes |-> <<>>, notified |-> 0]

CmdKeyboard ==
    <<"[", "C", "O", "M", "M", "A", "N", "D", "]", " ",
      "K", "e", "y", "b", "o", "a", "r", "d">>
CmdLink ==
    <<"[", "C", "O", "M", "M", "A", "N", "D", "]", " ", "L", "i", "n", "k">>

\* the result of handle_barcode when only set_mode(e) runs
OnlySetMode(e, w, st) ==
    LET m == set_mode(e, w, st) IN
    [enabled |-> m.enabled, settings |-> m.settings, saved |-> m.saved,
     set_mode |-> <<e>>, writes |-> m.writes, notified |-> m.notified,
     opened |-> <<>>, typed |-> <<>>]

\* lines 354-357: the action of the mode m.enabled
Route(barcode, args, m) ==
    [enabled |-> m.enabled, settings |-> m.settings, saved |-> m.saved,
     set_mode |-> args, writes |-> m.writes, notified |-> m.notified,
     opened |-> IF m.enabled THEN <<barcode>> ELSE <<>>,
     typed |-> IF m.enabled THEN <<>> ELSE <<barcode>>]

\* set_mode was not called
NoChange(st) ==
    [enabled |-> st.enabled, settings |-> st.settings, saved |-> st.saved,
     writes |-> <<>>, notified |-> 0]

\* a variant where a command barcode is not consumed: the return of lines
\* 342 and 345 is missing
handle_barcode_fall(barcode, title, w, st) ==
    IF barcode = CmdKeyboard
    THEN Route(barcode, <<FALSE>>, set_mode(FALSE, w, st))
    ELSE IF barcode = CmdLink
    THEN Route(barcode, <<TRUE>>, set_mode(TRUE, w, st))
    ELSE IF title = "ScanPark - Google Chrome"
            \/ title = "Page 1 | Create Courier Ticket - Google Chrome"
    THEN Route(barcode, <<FALSE>>, set_mode(FALSE, w, st))
    ELSE IF title = "Case Search Results - Google Chrome"
            \/ title = "Case Flow - Google Chrome"
    THEN Route(barcode, <<TRUE>>, set_mode(TRUE, w, st))
    ELSE Route(barcode, <<>>, NoChange(st))

\* a variant that opens the URL twice in URL mode
handle_barcode_twice(barcode, title, w, st) ==
    LET r == IF barcode = CmdKeyboard THEN OnlySetMode(FALSE, w, st)
             ELSE IF barcode = CmdLink THEN OnlySetMode(TRUE, w, st)
             ELSE IF title = "ScanPark - Google Chrome"
                     \/ title = "Page 1 | Create Courier Ticket - Google Chrome"
             THEN Route(barcode, <<FALSE>>, set_mode(FALSE, w, st))
             ELSE IF title = "Case Search Results - Google Chrome"
                     \/ title = "Case Flow - Google Chrome"
             THEN Route(barcode, <<TRUE>>, set_mode(TRUE, w, st))
             ELSE Route(barcode, <<>>, NoChange(st))
    IN  [r EXCEPT !.opened = @ \o @]

\* a variant that routes by the mode read before the window is looked at
handle_barcode_early(barcode, title, w, st) ==
    LET r == IF barcode = CmdKeyboard THEN OnlySetMode(FALSE, w, st)
             ELSE IF barcode = CmdLink THEN OnlySetMode(TRUE, w, st)
             ELSE IF title = "ScanPark - Google Chrome"
                     \/ title = "Page 1 | Create Courier Ticket - Google Chrome"
             THEN Route(barcode, <<FALSE>>, set_mode(FALSE, w, st))
             ELSE IF title = "Case Search Results - Google Chrome"
                     \/ title = "Case Flow - Google Chrome"
             THEN Route(barcode, <<TRUE>>, set_mode(TRUE, w, st))
             ELSE Route(barcode, <<>>, NoChange(st))
    IN  IF r.opened = <<>> /\ r.typed = <<>> THEN r
        ELSE [r EXCEPT !.opened = IF st.enabled THEN <<barcode>> ELSE <<>>,
                       !.typed = IF st.enabled THEN <<>> ELSE <<barcode>>]

\* handle_barcode(barcode) with the focused window titled `title`: the new
\* mode and file, the arguments of the calls of set_mode, save_settings,
\* open_url and passthrough_barcode, and the number of icon updates
handle_barcode(barcode, title, w, st) ==
    IF barcode = CmdKeyboard THEN OnlySetMode(FALSE, w, st)
    ELSE IF barcode = CmdLink THEN OnlySetMode(TRUE, w, st)
    ELSE IF title = "ScanPark - Google Chrome"
            \/ title = "Page 1 | Create Courier Ticket - Google Chrome"
    THEN Route(barcode, <<FALSE>>, set_mode(FALSE, w, st))
    ELSE IF title = "Case Search Results - Google Chrome"
            \/ title = "Case Flow - Google Chrome"
    THEN Route(barcode, <<TRUE>>, set_mode(TRUE, w, st))
    ELSE Route(barcode, <<>>, NoChange(st))

\* the barcodes dispatched: the two commands, a command in another case, and
\* two plain barcodes
Barcodes ==
    {CmdKeyboard, CmdLink,
     <<"[", "C", "O", "M", "M", "A", "N", "D", "]", " ", "l", "i", "n", "k">>,
     <<"1", "2", "3", "4", "5">>, <<"a">>}

\* what get_foreground_window_title() returns: the four titles of the table,
\* no window, another window, a title that only starts like one of the table
Titles ==
    {"ScanPark - Google Chrome",
     "Page 1 | Create Courier Ticket - Google Chrome",
     "Case Search Results - Google Chrome",
     "Case Flow - Google Chrome",
     "", "Untitled - Notepad", "ScanPark"}

AppState == [enabled |-> enabled, settings |-> settings, saved |-> saved,
             icon |-> icon]

\* the observation of a call into App
Call(op, barcode, title, r) ==
    [op |-> op, barcode |-> barcode, title |-> title, before |-> enabled,
     set_mode |-> r.set_mode, writes |-> r.writes, notified |-> r.notified,
     opened |-> r.opened, typed |-> r.typed]

NoCall ==
    [op |-> "init", barcode |-> <<>>, title |-> "", before |-> FALSE,
     set_mode |-> <<>>, writes |-> <<>>, notified |-> 0,
     opened |-> <<>>, typed |-> <<>>]

\* a thread that is in no call of App: pc is the line it is at, arg the
\* argument of set_mode, then where set_mode returns to, and the rest the
\* calls made so far by the call of handle_barcode or toggle_enabled
IdleThread ==
    [pc |-> "idle", barcode |-> <<>>, title |-> "", arg |-> FALSE,
     then |-> "return", before |-> FALSE,
     set_mode |-> <<>>, writes |-> <<>>, notified |-> 0]

Threads == {"scan", "tray"}

NoThreads == [t \in Threads |-> IdleThread]

\* App.__init__: the mode is read from the settings file
AppInit ==
    /\ settings \in {NoFile, <<FALSE>>, <<TRUE>>}
    /\ enabled = load_settings(settings)
    /\ connected = FALSE
    /\ icon = FALSE
    /\ call = NoCall
    /\ saved = TRUE
    /\ thread = NoThreads

\* App.run: the tray icon is created; the scan thread and the menu start
Run ==
    /\ ~icon
    /\ icon' = TRUE
    /\ call' = [NoCall EXCEPT !.op = "run", !.before = enabled]
    /\ UNCHANGED <<enabled, connected, settings, saved, thread, decVars, scanVars>>

\* the scan thread forwards a barcode to App.handle_barcode
HandleBarcode(barcode, title, w) ==
    /\ icon
    /\ \E r \in {handle_barcode(barcode, title, w, AppState)} :
       /\ w # "ok" => r.writes # <<>>
       /\ enabled' = r.enabled
       /\ settings' = r.settings
       /\ saved' = r.saved
       /\ call' = Call("handle_barcode", barcode, title, r)
    /\ UNCHANGED <<connected, icon, thread, decVars, scanVars>>

\* the tray menu calls App.toggle_enabled
ToggleEnabled(w) ==
    /\ icon
    /\ \E r \in {OnlySetMode(~enabled, w, AppState)} :
       /\ w # "ok" => r.writes # <<>>
       /\ enabled' = r.enabled
       /\ settings' = r.settings
       /\ saved' = r.saved
       /\ call' = Call("toggle_enabled", <<>>, "", r)
    /\ UNCHANGED <<connected, icon, thread, decVars, scanVars>>

\* App.set_mode(e) called as such
SetMode(e, w) ==
    /\ icon
    /\ \E r \in {OnlySetMode(e, w, AppState)} :
       /\ w # "ok" => r.writes # <<>>
       /\ enabled' = r.enabled
       /\ settings' = r.settings
       /\ saved' = r.saved
       /\ call' = Call("set_mode", <<>>, "", r)
    /\ UNCHANGED <<connected, icon, thread, decVars, scanVars>>

\* the scan thread reports the connection to App.update_status
UpdateStatus(c) ==
    /\ icon
    /\ connected' = c
    /\ call' = [NoCall EXCEPT !.op = "update_status", !.before = enabled,
                              !.notified = 1]
    /\ UNCHANGED <<enabled, icon, settings, saved, thread, decVars, scanVars>>

NextApp ==
    \/ Run
    \/ \E b \in Barcodes, t \in Titles, w \in WriteOutcomes : HandleBarcode(b, t, w)
    \/ \E w \in WriteOutcomes : ToggleEnabled(w)
    \/ \E e \in BOOLEAN, w \in WriteOutcomes : SetMode(e, w)
    \/ \E c \in BOOLEAN : UpdateStatus(c)

-----------------------------------------------------------------------------
(* App run by two threads: handle_barcode is called by the scan thread      *)
(* (line 396), toggle_enabled by the tray menu (line 383); nothing locks     *)
(* self.enabled or the settings file. A step is one read or write of         *)
(* self.enabled, or one write of the file.                                   *)

\* the observation of the call that thread t ends, r being its record
Ended(t, r, opened, typed) ==
    [op |-> IF t = "scan" THEN "handle_barcode" ELSE "toggle_enabled",
     barcode |-> r.barcode, title |-> r.title, before |-> r.before,
     set_mode |-> r.set_mode, writes |-> r.writes, notified |-> r.notified,
     opened |-> opened, typed |-> typed]

\* set_mode returns to its caller: to line 354 of handle_barcode, or to the
\* return of lines 342 and 345 and to the end of toggle_enabled
Return(t, r) ==
    IF r.then = "route"
    THEN /\ thread' = [thread EXCEPT ![t] = [r EXCEPT !.pc = "route"]]
         /\ call' = call
    ELSE /\ thread' = [thread EXCEPT ![t] = IdleThread]
         /\ call' = Ended(t, r, <<>>, <<>>)

\* lines 339-352: handle_barcode compares the barcode with the commands,
\* reads the window title and calls set_mode, or goes on to line 354
HandleBegin(barcode, title) ==
    /\ icon /\ thread["scan"].pc = "idle"
    /\ LET cmd == barcode = CmdKeyboard \/ barcode = CmdLink
           off == title = "ScanPark - Google Chrome"
                  \/ title = "Page 1 | Create Courier Ticket - Google Chrome"
           on  == title = "Case Search Results - Google Chrome"
                  \/ title = "Case Flow - Google Chrome"
           e   == IF cmd THEN barcode = CmdLink ELSE ~off
           sets == cmd \/ off \/ on
       IN  thread' = [thread EXCEPT !["scan"] =
               [IdleThread EXCEPT !.pc = IF sets THEN "test" ELSE "route",
                                  !.barcode = barcode,
                                  !.title = IF cmd THEN "" ELSE title,
                                  !.arg = IF sets THEN e ELSE FALSE,
                                  !.then = IF cmd THEN "return" ELSE "route",
                                  !.before = enabled,
                                  !.set_mode = IF sets THEN <<e>> ELSE <<>>]]
    /\ UNCHANGED <<enabled, connected, icon, settings, call, saved>>
    /\ UNCHANGED <<decVars, scanVars>>

\* line 367: toggle_enabled reads self.enabled and calls set_mode
ToggleBegin ==
    /\ icon /\ thread["tray"].pc = "idle"
    /\ thread' = [thread EXCEPT !["tray"] =
           [IdleThread EXCEPT !.pc = "test", !.arg = ~enabled,
                              !.before = enabled, !.set_mode = <<~enabled>>]]
    /\ UNCHANGED <<enabled, connected, icon, settings, call, saved>>
    /\ UNCHANGED <<decVars, scanVars>>

\* line 328: if self.enabled != enabled
SetModeTest(t) ==
    /\ thread[t].pc = "test"
    /\ IF enabled # thread[t].arg
       THEN /\ thread' = [thread EXCEPT ![t].pc = "assign"]
            /\ call' = call
       ELSE Return(t, thread[t])
    /\ UNCHANGED <<enabled, connected, icon, settings, saved>>
    /\ UNCHANGED <<decVars, scanVars>>

\* line 329: self.enabled = enabled
SetModeAssign(t) ==
    /\ thread[t].pc = "assign"
    /\ enabled' = thread[t].arg
    /\ thread' = [thread EXCEPT ![t].pc = "save"]
    /\ UNCHANGED <<connected, icon, settings, call, saved>>
    /\ UNCHANGED <<decVars, scanVars>>

\* line 330: save_settings({'enabled': enabled})
SetModeSave(t, w) ==
    /\ thread[t].pc = "save"
    /\ settings' = save_settings(thread[t].arg, settings, w)
    /\ saved' = (saved /\ w = "ok")
    /\ thread' = [thread EXCEPT ![t].pc = "notify",
                                ![t].writes = Append(@, thread[t].arg)]
    /\ UNCHANGED <<enabled, connected, icon, call>>
    /\ UNCHANGED <<decVars, scanVars>>

\* lines 333-335: the icon and the menu are updated, and set_mode returns
SetModeNotify(t) ==
    /\ thread[t].pc = "notify"
    /\ Return(t, [thread[t] EXCEPT !.notified = IF icon THEN @ + 1 ELSE @])
    /\ UNCHANGED <<enabled, connected, icon, settings, saved>>
    /\ UNCHANGED <<decVars, scanVars>>

\* lines 354-357: handle_barcode reads self.enabled and opens or types
HandleRoute ==
    /\ thread["scan"].pc = "route"
    /\ call' = Ended("scan", thread["scan"],
                     IF enabled THEN <<thread["scan"].barcode>> ELSE <<>>,
                     IF enabled THEN <<>> ELSE <<thread["scan"].barcode>>)
    /\ thread' = [thread EXCEPT !["scan"] = IdleThread]
    /\ UNCHANGED <<enabled, connected, icon, settings, saved>>
    /\ UNCHANGED <<decVars, scanVars>>

NextThreads ==
    \/ Run
    \/ \E b \in Barcodes, t \in Titles : HandleBegin(b, t)
    \/ ToggleBegin
    \/ \E t \in Threads : SetModeTest(t)
    \/ \E t \in Threads : SetModeAssign(t)
    \/ \E t \in Threads, w \in WriteOutcomes : SetModeSave(t, w)
    \/ \E t \in Threads : SetModeNotify(t)
    \/ HandleRoute

-----------------------------------------------------------------------------
(* The specifications                                                       *)

DecIdle == code = 0 /\ shift = FALSE /\ char = Pending
\* App with no settings file, before run()
AppIdle ==
    /\ enabled = FALSE /\ connected = FALSE /\ icon = FALSE
    /\ settings = NoFile /\ call = NoCall /\ saved = TRUE
    /\ thread = NoThreads

Init == DecIdle /\ ScanInit /\ AppIdle

Next ==
    \/ \E o \in ConnectOutcomes : Connect(o)
    \/ ReadNoEndpoint
    \/ \E d \in Reports, dt \in Delays, cbRaises \in BOOLEAN :
           ReadData(d, dt, cbRaises)
    \/ ReadTimedOut
    \/ ReadError
    \/ Wake
    \/ Exit
    \/ Quit

Spec == Init /\ [][Next]_vars

\* the reports of one key in the first slot: a, Enter, no key; and the packet
\* of 2 bytes
LoopReports ==
    {<<0, 0, k1, 0, 0, 0, 0, 0>> : k1 \in {0, 4, 40}} \cup {<<0, 0>>}

\* the steps of the scan thread: all of Next but Quit, on these reports
ScanNext ==
    \/ \E o \in ConnectOutcomes : Connect(o)
    \/ ReadNoEndpoint
    \/ \E d \in LoopReports, dt \in Delays, cbRaises \in BOOLEAN :
           ReadData(d, dt, cbRaises)
    \/ ReadTimedOut
    \/ ReadError
    \/ Wake
    \/ Exit

NextLoop == ScanNext \/ Quit

\* the scan thread keeps running: a read returns within its timeout, with
\* data, the timeout or an error, and time.sleep(2) returns
FairSpec == Init /\ [][NextLoop]_vars /\ WF_vars(ScanNext)

-----------------------------------------------------------------------------
(* The decoder on its own: any call hid_to_char(c, sh) over the whole       *)
(* domain 0x00-0xFF x {no shift, shift}                                     *)

Decode(c, sh) ==
    /\ code' = c
    /\ shift' = sh
    /\ char' = hid_to_char(c, sh)
    /\ UNCHANGED <<scanVars, appVars>>

NextDecode == \E c \in 0..255, sh \in BOOLEAN : Decode(c, sh)

SpecDecode == Init /\ [][NextDecode]_vars

\* App on its own, from any settings file
InitApp == DecIdle /\ ScanInit /\ AppInit

SpecApp == InitApp /\ [][NextApp]_vars

\* App run by the scan thread and the tray thread, line by line
SpecThreads == InitApp /\ [][NextThreads]_vars

-----------------------------------------------------------------------------
(* The assembler and the debouncer: claims C1 to C4                         *)

Range(f) == {f[i] : i \in DOMAIN f}

\* a step of the scan thread that called _process_data
DataStep == stop_event' = stop_event /\ step'.op = "data"

\* the characters and Enter signals decoded from the keys, in order
DecodedChars(keys, sh) ==
    SelectSeq([i \in DOMAIN keys |-> hid_to_char(keys[i], sh)],
              LAMBDA c : c # None)

\* seq lists exactly the members of S, in ascending order
AscendingListOf(seq, S) ==
    /\ Range(seq) = S
    /\ \A i, j \in DOMAIN seq : i < j => seq[i] < seq[j]

\* C1: a barcode forwarded to barcode_callback never holds characters that
\* were in the buffer when a keystroke arrived more than 100 ms after the one
\* before it: the stale buffer was discarded first.
C1_StaleBufferDiscarded ==
    step.op = "data" /\ step.emitted # <<>> => step.stale_emitted = 0

\* C2: a report that decodes only characters appends them to the buffer in
\* order and forwards nothing; a report that decodes Enter alone on a
\* non-empty buffer, with barcode_callback returning, forwards the buffer
\* exactly once and leaves the buffer empty.
C2_HappyPath ==
    [][DataStep /\ ~step'.raised =>
         LET cs == DecodedChars(step'.keys, step'.shift) IN
         /\ Enter \notin Range(cs) =>
                step'.emitted = <<>> /\ buffer' = buffer \o cs
         /\ cs = <<Enter>> /\ buffer # <<>> =>
                step'.emitted = <<buffer>> /\ buffer' = <<>>]_vars

\* C2 witness: Enter alone arrived within the idle threshold after two
\* characters, they were forwarded in one call and the buffer is empty.
C2_Witness ==
    /\ step.op = "data" /\ ~step.raised /\ step.keys = <<40>> /\ ~step.late
    /\ step.emitted = <<<<"a", " ">>>>
    /\ step.stale_emitted = 0
    /\ buffer = <<>>

\* C3: every string passed to barcode_callback is non-empty and holds no
\* Enter, the buffer never holds Enter, and a report whose first decoded
\* signal is Enter, met with an empty buffer, forwards nothing and leaves in
\* the buffer only the characters decoded after that Enter.
C3_NoEmptyBarcode ==
    [][DataStep =>
         LET cs == DecodedChars(step'.keys, step'.shift) IN
         /\ \A i \in DOMAIN step'.emitted :
                step'.emitted[i] # <<>> /\ Enter \notin Range(step'.emitted[i])
         /\ Enter \notin Range(buffer')
         /\ buffer = <<>> /\ cs # <<>> /\ Head(cs) = Enter =>
                step'.emitted = <<>> /\ buffer' = Tail(cs)]_vars

\* C3 witness: Enter alone was decoded on an empty buffer; nothing was
\* forwarded and the buffer is still empty.
C3_Witness ==
    /\ step.op = "data" /\ step.keys = <<40>>
    /\ step.emitted = <<>> /\ buffer = <<>>

\* C4: for a report of at least 3 bytes, the keys the loop runs over are the
\* non-zero codes of the report minus those of the report before it, each
\* once, in ascending order, and the report's codes become the previous set.
C4_Debounce ==
    [][DataStep /\ step'.len >= 3 =>
         /\ AscendingListOf(step'.keys, step'.cur \ last_codes)
         /\ prev_keys' = step'.cur]_vars

\* C4 witness: a report held key a, which the report before it held too,
\* next to Enter, which it did not; only Enter was decoded, and it forwarded
\* the buffer.
C4_Witness ==
    /\ step.op = "data" /\ step.len = 8
    /\ step.cur = {4, 40} /\ step.keys = <<40>> /\ step.emitted # <<>>

-----------------------------------------------------------------------------
(* The decoder: claims C5 and C6                                            *)

DigitRow == <<"1", "2", "3", "4", "5", "6", "7", "8", "9", "0">>
ShiftRow == <<"!", "@", "#", "$", "%", "^", "&", "*", "(", ")">>

\* the keys of the symbol table: space, hyphen, equals, both brackets,
\* backslash, semicolon, quote, backtick, comma, period, slash
SymbolCodes == {44, 45, 46, 47, 48, 49, 51, 52, 53, 54, 55, 56}

\* C5: codes 0x04-0x1D give the letter a-z, uppercase with shift; codes
\* 0x1E-0x27 give 1-9 and 0, and !@#$%^&*() with shift; code 0x28 gives
\* Enter; a code outside the letters, the digits, Enter and the symbol table
\* gives no output, with and without shift.
C5_Decode ==
    char # Pending =>
        /\ code \in 4..29 =>
               char = IF shift THEN UpperLetters[code - 3] ELSE LowerLetters[code - 3]
        /\ code \in 30..39 =>
               char = IF shift THEN ShiftRow[code - 29] ELSE DigitRow[code - 29]
        /\ code = 40 => char = Enter
        /\ code \notin (4..40) \cup SymbolCodes => char = None

\* C5 witness: the last code of the digit row was decoded with shift.
C5_Witness == code = 39 /\ shift /\ char = ")"

\* C6 as stated: every key of the symbol table decodes with shift to a
\* character different from the one it decodes to without shift.
C6_ShiftedDiffers ==
    char # Pending /\ code \in SymbolCodes => char # hid_to_char(code, ~shift)

\* C6 as amended: every key of the symbol table but space decodes to a
\* character with and without shift, and to different ones; space decodes to
\* a space with and without shift.
C6_ShiftedDiffersButSpace ==
    char # Pending /\ code \in SymbolCodes =>
        /\ char # None /\ char # Enter
        /\ code # 44 => char # hid_to_char(code, ~shift)
        /\ code = 44 => char = " " /\ hid_to_char(code, ~shift) = " "

\* C6 witness: the slash key was decoded with shift.
C6_Witness == code = 56 /\ shift /\ char = "?"

-----------------------------------------------------------------------------
(* The dispatcher: claims C7 to C10                                         *)

\* the title table: the titles that force keyboard mode, and URL mode
KeyboardTitles ==
    {"ScanPark - Google Chrome", "Page 1 | Create Courier Ticket - Google Chrome"}
LinkTitles ==
    {"Case Search Results - Google Chrome", "Case Flow - Google Chrome"}

\* the last call into App was handle_barcode with a barcode that is (not) a
\* command
Dispatched == call.op = "handle_barcode"
IsCommand == call.barcode \in {CmdKeyboard, CmdLink}

\* C7: after handle_barcode with a command barcode, whatever the mode and the
\* window title were, the mode is the commanded one and neither open_url nor
\* passthrough_barcode was called.
C7_CommandRouting ==
    Dispatched /\ IsCommand =>
        /\ enabled = (call.barcode = CmdLink)
        /\ call.opened = <<>>
        /\ call.typed = <<>>

\* C7 witness: the keyboard command was dispatched in URL mode under a window
\* title of the table that forces URL mode; the mode is keyboard mode.
C7_Witness ==
    /\ Dispatched /\ call.barcode = CmdKeyboard /\ call.before = TRUE
    /\ call.title = "Case Flow - Google Chrome"
    /\ enabled = FALSE /\ call.opened = <<>> /\ call.typed = <<>>

\* C8 as stated: handle_barcode called in URL mode with a barcode that is no
\* command calls open_url exactly once, with that barcode, and does not call
\* passthrough_barcode.
C8_UrlModeOpensUrl ==
    Dispatched /\ ~IsCommand /\ call.before = TRUE =>
        call.opened = <<call.barcode>> /\ call.typed = <<>>

\* C8 as amended: the same, when the focused window's title is not one of the
\* two that force keyboard mode.
C8_UrlModeOpensUrlUnlessForced ==
    Dispatched /\ ~IsCommand /\ call.before = TRUE
               /\ call.title \notin KeyboardTitles =>
        call.opened = <<call.barcode>> /\ call.typed = <<>>

\* C8 witness: "12345" was dispatched in URL mode under a window outside the
\* table and was opened once.
C8_Witness ==
    /\ Dispatched /\ call.barcode = <<"1", "2", "3", "4", "5">>
    /\ call.before = TRUE /\ call.title = "Untitled - Notepad"
    /\ call.opened = <<<<"1", "2", "3", "4", "5">>>> /\ call.typed = <<>>

\* the action of mode e was executed on the barcode, and no other
ActionOf(e) ==
    /\ call.opened = IF e THEN <<call.barcode>> ELSE <<>>
    /\ call.typed = IF e THEN <<>> ELSE <<call.barcode>>

\* mode e is the mode now, it was handed to save_settings if it was not the
\* mode before, and the settings file holds it unless the last write failed
Forced(e) ==
    /\ enabled = e
    /\ call.before # e => call.writes = <<e>>
    /\ saved => load_settings(settings) = e
    /\ ActionOf(e)

\* C9: after handle_barcode with a barcode that is no command: under a title
\* of the table the mode is the one the entry forces, whatever it was, it is
\* persisted, and the action executed is that mode's; under any other title
\* the mode is unchanged, nothing is written and the action is that of the
\* mode.
C9_AutoDetection ==
    Dispatched /\ ~IsCommand =>
        /\ call.title \in KeyboardTitles => Forced(FALSE)
        /\ call.title \in LinkTitles => Forced(TRUE)
        /\ call.title \notin KeyboardTitles \cup LinkTitles =>
               /\ enabled = call.before
               /\ call.set_mode = <<>> /\ call.writes = <<>>
               /\ ActionOf(call.before)

\* C9 witness: a barcode was dispatched in URL mode under the ScanPark
\* window; the mode is keyboard mode, the file holds it, the barcode was typed.
C9_Witness ==
    /\ Dispatched /\ call.barcode = <<"1", "2", "3", "4", "5">>
    /\ call.before = TRUE /\ call.title = "ScanPark - Google Chrome"
    /\ enabled = FALSE /\ settings = <<FALSE>>
    /\ call.typed = <<<<"1", "2", "3", "4", "5">>>> /\ call.opened = <<>>

\* C10: a call of set_mode with the value the mode has writes no settings,
\* updates neither icon nor menu, and leaves the mode and the file as they
\* were.
C10_SetModeIdempotent ==
    [][call'.set_mode = <<enabled>> =>
          /\ call'.writes = <<>>
          /\ call'.notified = 0
          /\ enabled' = enabled
          /\ settings' = settings]_vars

\* C10 witness: the keyboard command was dispatched in keyboard mode, with
\* the tray icon present: nothing was written, nothing was notified.
C10_Witness ==
    /\ Dispatched /\ call.barcode = CmdKeyboard /\ icon
    /\ call.set_mode = <<FALSE>> /\ call.before = FALSE
    /\ call.writes = <<>> /\ call.notified = 0

-----------------------------------------------------------------------------
(* The scan loop: claims C11 to C18                                         *)

\* a step of the scan thread (Quit, on the tray thread, sets the stop event)
ScanStep == stop_event' = stop_event /\ vars' # vars

\* the steps that reach the read of line 247
ReadOps == {"data", "timeout", "read_error", "no_endpoint"}

\* C11: a read that ends with a USB error other than the timeout leaves the
\* device handle and the endpoint None and the loop in its backoff; and while
\* the device handle is None the scan thread only sleeps, leaves the loop or
\* calls connect(): the handle is set again, and a read made, only after a
\* call of connect().
C11_ReconnectAfterError ==
    [][ScanStep =>
          /\ step'.op = "read_error" =>
                 device' = None /\ endpoint' = None /\ pc' = "sleep"
          /\ device = None => step'.op \notin ReadOps
          /\ device = None /\ device' # None => step'.op = "connect"]_vars

\* C11 witness: a read failed in the middle of a scan; the session is
\* disconnected and the loop is in its backoff.
C11_Witness ==
    /\ step.op = "read_error" /\ buffer = <<"a">>
    /\ device = None /\ endpoint = None /\ pc = "sleep"

\* C12: a read that ends with the timeout leaves the device handle, the
\* endpoint, the buffer and the previous keys as they were, reports no
\* status, and the loop is at its top again, not in a backoff.
C12_TimeoutBenign ==
    [][ScanStep /\ step'.op = "timeout" =>
          /\ device' = device /\ device' # None
          /\ endpoint' = endpoint /\ endpoint' # None
          /\ buffer' = buffer
          /\ prev_keys' = prev_keys
          /\ step'.status = <<>>
          /\ pc' = "top"]_vars

\* C12 witness: a read timed out in the middle of a scan, with key a held.
C12_Witness ==
    /\ step.op = "timeout" /\ buffer = <<"a">> /\ prev_keys = {4}
    /\ device = Dev /\ endpoint = Ep /\ pc = "top"

\* C13: whenever the loop is in its backoff, the step that led there called
\* status_callback(False), be it a failed connect(), a read error or an
\* exception; and whenever the loop is about to make the first read after a
\* connect(), that connect() succeeded and status_callback(True) was called.
C13_StatusBeforeWait ==
    /\ pc = "sleep" => step.status = <<FALSE>>
    /\ pc = "read" => step.op = "connect" /\ step.status = <<TRUE>>
    /\ step.op = "connect" =>
           \/ pc = "read" /\ step.status = <<TRUE>> /\ endpoint # None
           \/ pc = "sleep" /\ step.status = <<FALSE>>
    /\ step.op \in {"read_error", "no_endpoint"} =>
           pc = "sleep" /\ step.status = <<FALSE>>

\* C13 witness: after an earlier connection was lost, a connect() failed;
\* the failure was reported and the loop is in its backoff.
C13_Witness ==
    /\ step.op = "connect" /\ step.status = <<FALSE>> /\ pc = "sleep"
    /\ buffer = <<"a">>

Failed ==
    \/ step.op = "connect" /\ step.status # <<TRUE>>
    \/ step.op = "read_error"
    \/ step.op = "data" /\ step.raised

\* C15: the loop is left only when the stop event is set; and after a failed
\* connect(), a read error or an exception of _process_data the device
\* handle and the endpoint are None, status_callback(False) was called and
\* the loop is in its backoff, from which it goes on.
C15_NoErrorEndsLoop ==
    /\ pc = "done" => stop_event
    /\ Failed =>
           /\ device = None /\ endpoint = None
           /\ step.status = <<FALSE>>
           /\ pc = "sleep"

\* C16: after a connect() that failed the device handle is None, and no read
\* is attempted without an endpoint that a connect() found.
C16_FailedConnectDisconnected ==
    /\ step.op = "connect" /\ pc = "sleep" => device = None
    /\ step.op # "no_endpoint"

\* C17: when barcode_callback raised on a completed barcode, the buffer is
\* empty once the call of _process_data was left, so the barcode is not in
\* the buffer when the next report is processed.
C17_DeliveredAtMostOnce ==
    step.op = "data" /\ step.raised => buffer = <<>>

\* C18: right after a successful connect() the buffer and the previous keys
\* are empty.
C18_FreshStateOnConnect ==
    step.op = "connect" /\ pc = "read" => buffer = <<>> /\ prev_keys = {}

-----------------------------------------------------------------------------
(* The dispatcher under two threads: claims C19 and C20                     *)

\* thread t is in a call of set_mode, or has evaluated its argument
InSetMode(t) == thread[t].pc \in {"test", "assign", "save", "notify"}

\* C19: whenever no call of set_mode is in progress and no write of the
\* settings file has failed, the mode the file holds, if it holds one, is
\* the mode in memory.
C19_PersistedAgrees ==
    (\A t \in Threads : ~InSetMode(t)) /\ saved /\ settings # NoFile =>
        settings = <<enabled>>

\* C20: a call of handle_barcode with a barcode that is no command, under a
\* window title of the table, executes the action of the mode the entry
\* forces, whatever toggle_enabled does meanwhile.
C20_AutoDetectionWins ==
    Dispatched /\ ~IsCommand =>
        /\ call.title \in KeyboardTitles => ActionOf(FALSE)
        /\ call.title \in LinkTitles => ActionOf(TRUE)

=============================================================================
